---- MODULE Spec2Model ----
(***************************************************************************)
(* Model of src/live_subs_mac.py: the live-caption pipeline.               *)
(*                                                                         *)
(*   capture callback --raw_q--> asr_thread --text_q--> OverlayApp._tick   *)
(*                                                                         *)
(* Samples are identified by their position in the device stream (1, 2,    *)
(* ...).  A buffer of samples is kept as a sequence of runs <<lo, hi>> of  *)
(* consecutive positions, so that buffers of millions of samples (the      *)
(* code's retention cap is 48000*60) stay small values.  A text is a       *)
(* sequence of one-character strings, so that str.strip() is computed.     *)
(***************************************************************************)
EXTENDS Integers, Sequences, FiniteSets, TLC

VARIABLES
    mainPc,       \* position of main(): lines 326-346
    audioPc,      \* position of audio_thread(): lines 169-185
    workerPc,     \* position of asr_thread(): lines 190-225
    guiPc,        \* "idle" (in mainloop, between callbacks) or "tick" (inside _tick)
    terminate,    \* threading.Event terminate, line 86
    raw_q,        \* queue.Queue raw_q, line 84: frames from the callback
    text_q,       \* queue.Queue text_q, line 85: texts for the overlay
    stream,       \* the open sd.InputStream: [sr], or NoStream
    src_buffer,   \* asr_thread's local src_buffer, line 191
    asr_calls,    \* windows the engine is transcribing right now
    lines,        \* OverlayApp.lines, line 267
    text_var,     \* OverlayApp.text_var, line 248
    captured,     \* number of samples the device has delivered so far
    frames_in,    \* number of frames the callback has been called with
    folded,       \* number of mono samples asr_thread has appended to src_buffer
    windows_out,  \* number of windows asr_thread has passed to the engine
    asr_failed,   \* number of engine calls that raised
    sunk,         \* texts _tick has taken from text_q since the last _clear
    fed,          \* number of texts SinkSpec has put on text_q
    polls_after,  \* per loop: polls completed while terminate was set (counted to 2)
    exit_report,  \* what the process has said of its end: lines 128-129, 346
    results,      \* texts asr_transcribe_chunk has returned so far, line 221
    resample,     \* one call of simple_resample: its arguments and its result
    app,          \* the RealtimeSubtitlesNow object of realtime_subtitles_now.py
                  \* and the locals of its audio_processing_thread
    status_printed \* stderr holds an "[Audio] ..." status line, lines 165-166

vars == <<mainPc, audioPc, workerPc, guiPc, terminate, raw_q, text_q, stream,
          src_buffer, asr_calls, lines, text_var, captured, frames_in, folded,
          windows_out, asr_failed, sunk, fed, app, resample, status_printed, polls_after, exit_report,
          results>>

(***************************************************************************)
(* Bounds of the model.                                                    *)
(***************************************************************************)
\* frames the callback delivers in one run
MaxFrames == 3
\* texts fed to the caption sink in one run of SinkSpec
MaxFeeds == 6
\* samples of the longest array given to simple_resample in ResampleSpec
MaxLen == 4
\* chunks the audio_processing_thread of realtime_subtitles_now.py adds to
\* its buffer in one run
MaxChunks == 50
\* chunks that wait on its audio_queue at one time
MaxQueued == 1
\* subtitles that wait on its subtitle_queue at one time
MaxSubs == 1

(***************************************************************************)
(* Configuration, lines 30-34 (durations in milliseconds).                 *)
(***************************************************************************)
TARGET_SR == 16000
BLOCK_MS == 2500
OVERLAP_MS == 500
KEEP_LINES == 4
\* approx_src_sr, line 196
approx_src_sr == 48000
\* a retention cap of one block at the target rate
MaxRetentionSamples_OneBlock == (TARGET_SR * BLOCK_MS) \div 1000
\* the retention cap of lines 212-213, 48000 * 60
MaxRetentionSamples == 48000 * 60
\* queue.Queue() of lines 84-85: maxsize 0, and a maxsize <= 0 is no limit
\* a frame queue of limited size whose put waits for room:
\* queue.Queue(maxsize=MaxFrames - 1)
raw_q_maxsize_Limited == MaxFrames - 1
raw_q_maxsize == 0
text_q_maxsize == 0

\* target_block, line 193: int(TARGET_SR * BLOCK_SEC)
target_block == (TARGET_SR * BLOCK_MS) \div 1000
\* need_src_len, line 215: int((BLOCK_SEC + OVERLAP_SEC) * approx_src_sr)
need_src_len == ((BLOCK_MS + OVERLAP_MS) * approx_src_sr) \div 1000

Min(a, b) == IF a < b THEN a ELSE b

(***************************************************************************)
(* The device: default_samplerate and max_input_channels of the device     *)
(* audio_thread picks (lines 171-173), and the frames it delivers.         *)
(***************************************************************************)
DeviceRates == {16000, 44100, 48000}
NoStream == [sr |-> 0]
\* blocksize, line 174: int(src_sr * 0.05)
blocksize(src_sr) == (src_sr * 5) \div 100
\* a callback delivers a burst of 60 or of 1000 blocks (3 s, 50 s of audio)
FrameBlocks == {60, 1000}

(***************************************************************************)
(* Buffers of samples as runs of stream positions.                         *)
(***************************************************************************)
RunLen(r) == r[2] - r[1] + 1

RECURSIVE BufLen(_)
\* len(buf)
BufLen(buf) ==
    IF buf = <<>> THEN 0 ELSE RunLen(Head(buf)) + BufLen(Tail(buf))

\* np.concatenate([buf, mono]), mono one run of n >= 0 samples
BufConcat(buf, mono) ==
    IF RunLen(mono) <= 0 THEN buf
    ELSE IF buf # <<>> /\ buf[Len(buf)][2] + 1 = mono[1]
         THEN [buf EXCEPT ![Len(buf)] = <<buf[Len(buf)][1], mono[2]>>]
         ELSE Append(buf, mono)

RECURSIVE BufTakeLast(_, _)
\* buf[-n:] for n > 0: the last n samples, or all of buf when it has fewer
BufTakeLast(buf, n) ==
    IF buf = <<>> \/ n <= 0 THEN <<>>
    ELSE LET last == buf[Len(buf)]
             rest == SubSeq(buf, 1, Len(buf) - 1)
         IN IF RunLen(last) >= n
            THEN << <<last[2] - n + 1, last[2]>> >>
            ELSE BufTakeLast(rest, n - RunLen(last)) \o <<last>>

RECURSIVE BufTakeFirst(_, _)
\* buf[:n], which the code does not use
BufTakeFirst(buf, n) ==
    IF buf = <<>> \/ n <= 0 THEN <<>>
    ELSE LET first == Head(buf)
         IN IF RunLen(first) >= n
            THEN << <<first[1], first[1] + n - 1>> >>
            ELSE <<first>> \o BufTakeFirst(Tail(buf), n - RunLen(first))

(***************************************************************************)
(* Texts: sequences of characters.                                         *)
(***************************************************************************)
Whitespace == {" ", "\t"}

RECURSIVE LStrip(_)
LStrip(t) == IF t # <<>> /\ Head(t) \in Whitespace THEN LStrip(Tail(t)) ELSE t

RECURSIVE RStrip(_)
RStrip(t) ==
    IF t # <<>> /\ t[Len(t)] \in Whitespace
    THEN RStrip(SubSeq(t, 1, Len(t) - 1)) ELSE t

\* str.strip()
Strip(t) == RStrip(LStrip(t))

RECURSIVE Join(_)
\* "\n".join(lines)
Join(ls) ==
    IF ls = <<>> THEN <<>>
    ELSE IF Len(ls) = 1 THEN ls[1]
    ELSE ls[1] \o <<"\n">> \o Join(Tail(ls))

\* what the engine's segments may hold for window number k before
\* asr_transcribe_chunk strips them: nothing, blanks, or words of that window
EngineTexts(k) == { <<>>, <<" ">>, <<" ", "w", ToString(k), " ">> }
\* the text OverlayApp shows before the first tick, line 248
WaitingText == <<"w", "a", "i", "t">>

\* what the process prints as it ends: nothing yet, the lines of init_asr
\* before its sys.exit(1) (lines 125-129), the line of main (line 346)
NoMessage == "none"
NoBackendMessage == "[ASR] no model"
ExitMessage == "[Exit] Bye."

(***************************************************************************)
(* simple_resample, lines 68-81: the length of its result.                 *)
(***************************************************************************)
\* int(round(num / den)) for num >= 0, den > 0: Python rounds halves to even
RoundHalfEven(num, den) ==
    LET q == num \div den
        r == num % den
    IN IF 2 * r < den THEN q
       ELSE IF 2 * r > den THEN q + 1
       ELSE IF q % 2 = 0 THEN q ELSE q + 1

RECURSIVE GCD(_, _)
GCD(a, b) == IF b = 0 THEN a ELSE GCD(b, a % b)

\* dst_len, lines 73-74: int(round(n * ratio)); n * ratio is computed on the
\* reduced fraction dst_sr / src_sr
DstLen(n, src_sr, dst_sr) ==
    LET g == GCD(src_sr, dst_sr)
    IN RoundHalfEven(n * (dst_sr \div g), src_sr \div g)

\* len(simple_resample(x, src_sr, dst_sr)) for len(x) = n, lines 71-76
ResampleLen(n, src_sr, dst_sr) ==
    IF src_sr = dst_sr \/ n = 0 THEN n
    ELSE LET dst_len == DstLen(n, src_sr, dst_sr)
         IN IF dst_len <= 1 THEN Min(n, 1) ELSE dst_len

(***************************************************************************)
(* simple_resample, lines 68-81: its result.  A sample is a fraction       *)
(* <<num, den>> in lowest terms, den > 0: the interpolation is computed    *)
(* exactly, where the code rounds to float64 and then to float32.          *)
(***************************************************************************)
Abs(a) == IF a < 0 THEN 0 - a ELSE a

Frac(num, den) ==
    LET g == GCD(Abs(num), den)
    IN <<num \div g, den \div g>>

\* a result that is the first sample only, whatever the rates: x[:1]
Passthrough_FirstSample(x) == IF x = <<>> THEN <<>> ELSE <<x[1]>>

\* line 72: x.astype(np.float32, copy=False) of a float32 array is x itself
Passthrough(x) == x

\* line 76: x[:1]
FirstSample(x) == IF x = <<>> THEN <<>> ELSE <<x[1]>>

\* lines 77-80: np.interp at the j-th of the dst_len >= 2 points of
\* np.linspace(0, 1), over the len(x) >= 1 points of x laid on np.linspace(0, 1)
Interp(x, dst_len, j) ==
    LET d == dst_len - 1
        p == (j - 1) * (Len(x) - 1)
        i == p \div d + 1
        r == p % d
    IN IF r = 0 THEN x[i]
       ELSE Frac(x[i][1] * x[i + 1][2] * (d - r) + x[i + 1][1] * x[i][2] * r,
                 x[i][2] * x[i + 1][2] * d)

\* lines 68-81
simple_resample(x, src_sr, dst_sr) ==
    IF src_sr = dst_sr \/ Len(x) = 0 THEN Passthrough(x)
    ELSE LET dst_len == DstLen(Len(x), src_sr, dst_sr)
         IN IF dst_len <= 1 THEN FirstSample(x)
            ELSE [j \in 1..dst_len |-> Interp(x, dst_len, j)]

\* the arguments of the calls examined: arrays of up to MaxLen samples, and
\* rates with ratios below, at and above one half, and above one
SampleValues == {Frac(0, 1), Frac(1, 1)}
ResampleRates == {8000, 16000, 44100, 48000}
Inputs == UNION { [1..n -> SampleValues] : n \in 0..MaxLen }
\* no RealtimeSubtitlesNow object is examined
NoApp == [pc |-> "none"]
\* no call of simple_resample is examined
NoResample == [x |-> <<>>, src_sr |-> TARGET_SR, dst_sr |-> TARGET_SR, y |-> <<>>, done |-> FALSE]

(***************************************************************************)
(* queue.Queue: put blocks while a positive maxsize is reached.            *)
(***************************************************************************)
QueueFull(q, maxsize) == maxsize > 0 /\ Len(q) >= maxsize

(***************************************************************************)
(* asr_thread, lines 190-225: the local computation of one iteration.      *)
(***************************************************************************)
\* lines 204-207: the mono samples of a block of n samples per channel
Mono(block) == <<block.pos, block.pos + block.n - 1>>

\* a trim that keeps the oldest samples: src_buffer[:48000*60]
Trim_KeepOldest(buf) ==
    IF BufLen(buf) > MaxRetentionSamples
    THEN BufTakeFirst(buf, MaxRetentionSamples)
    ELSE buf

\* lines 212-213: the trim to the retention cap
Trim(buf) ==
    IF BufLen(buf) > MaxRetentionSamples
    THEN BufTakeLast(buf, MaxRetentionSamples)
    ELSE buf

\* a fold that puts the new samples first: np.concatenate([mono, src_buffer])
Fold_Front(buf, block) == Trim(<<Mono(block)>> \o buf)

\* lines 209-213: src_buffer after a block is folded in
Fold(buf, block) == Trim(BufConcat(buf, Mono(block)))

\* a test against the retention cap: len(src_buffer) > 48000 * 60
HasSpan_AboveCap(buf) == BufLen(buf) > MaxRetentionSamples

\* line 216: whether a window is formed
HasSpan(buf) == BufLen(buf) >= need_src_len

\* a truncation that drops the head of the wrong length: mono16k[target_block:]
Truncate_DropBlock(rlen) == IF rlen >= target_block THEN rlen - target_block ELSE rlen

\* lines 219-220: the length of mono16k after the truncation
Truncate(rlen) == IF rlen >= target_block THEN target_block ELSE rlen

\* a truncation that keeps the oldest samples: mono16k[:target_block]
TruncateFrom_Head(rlen) == 1

\* lines 219-220: the index in mono16k of the first sample that
\* mono16k[-target_block:] keeps
TruncateFrom(rlen) == IF rlen >= target_block THEN rlen - target_block + 1 ELSE 1

\* lines 217-220: the window passed to asr_transcribe_chunk:
\* span: the samples of src_chunk, rlen: len of the resampled span,
\* n: len of the window, from: index in the resampled span of its first sample
Window(buf) ==
    LET src_chunk == BufTakeLast(buf, need_src_len)
        rlen == ResampleLen(BufLen(src_chunk), approx_src_sr, TARGET_SR)
        n == Truncate(rlen)
    IN [span |-> src_chunk, rlen |-> rlen, n |-> n, from |-> TruncateFrom(rlen)]

\* the window as the engine holds it, with its number in the order of calls
Numbered(w, k) == [span |-> w.span, rlen |-> w.rlen, n |-> w.n, from |-> w.from, seq |-> k]

\* a dispatch that hands the window to a helper and goes on with the loop
AfterDispatch_Detached == "sleep"

\* line 221: asr_transcribe_chunk is called in asr_thread itself, which waits
\* for the result
AfterDispatch == "call"

(***************************************************************************)
(* The caption sink, lines 310-313: what _tick does with one text.         *)
(***************************************************************************)
\* an eviction of the newest lines: self.lines[:KEEP_LINES]
LastLines_KeepOldest(ls) ==
    IF Len(ls) > KEEP_LINES THEN SubSeq(ls, 1, KEEP_LINES) ELSE ls

\* line 313: self.lines[-KEEP_LINES:]
LastLines(ls) ==
    IF Len(ls) > KEEP_LINES
    THEN SubSeq(ls, Len(ls) - KEEP_LINES + 1, Len(ls))
    ELSE ls

\* a store of the text as it came: self.lines.append(t)
Stored_Raw(t) == t

\* line 311: the text stored
Stored(t) == Strip(t)

\* a sink that puts the newest line first: self.lines.insert(0, t)
SinkAppend_NewestFirst(ls, t) ==
    IF Strip(t) # <<>> THEN LastLines(<<Stored(t)>> \o ls) ELSE ls

\* lines 310-313: self.lines after _tick has taken the text t
SinkAppend(ls, t) ==
    IF Strip(t) # <<>> THEN LastLines(Append(ls, Stored(t))) ELSE ls

(***************************************************************************)
(* Init: the process has started, main() has not yet run.                  *)
(***************************************************************************)
Init ==
    /\ mainPc = "init"
    /\ audioPc = "unstarted"
    /\ workerPc = "unstarted"
    /\ guiPc = "none"
    /\ terminate = FALSE
    /\ raw_q = <<>>
    /\ text_q = <<>>
    /\ stream = NoStream
    /\ src_buffer = <<>>
    /\ asr_calls = <<>>
    /\ lines = <<>>
    /\ text_var = <<>>
    /\ captured = 0
    /\ frames_in = 0
    /\ folded = 0
    /\ windows_out = 0
    /\ asr_failed = 0
    /\ sunk = <<>>
    /\ fed = 0
    /\ polls_after = [audio |-> 0, worker |-> 0, gui |-> 0]
    /\ exit_report = NoMessage
    /\ results = <<>>
    /\ resample = NoResample
    /\ app = NoApp
    /\ status_printed = FALSE

\* the process is alive: its daemon threads die with main()
Alive == mainPc # "exited"

\* a loop completes a poll (a sleep, a queue wait, a timer tick)
Polled(loop) ==
    polls_after' = IF terminate
                   THEN [polls_after EXCEPT ![loop] = Min(2, @ + 1)]
                   ELSE polls_after

mainVars == <<mainPc, exit_report>>
audioVars == <<audioPc, stream>>
captureVars == <<raw_q, captured, frames_in>>
workerVars == <<workerPc, src_buffer, asr_calls, folded, windows_out, asr_failed,
                results>>
guiVars == <<guiPc, lines, text_var, sunk>>

(***************************************************************************)
(* main, lines 326-346.                                                    *)
(***************************************************************************)
\* line 328: init_asr loads a model, or sys.exit(1) when none is available
MainInitAsr ==
    /\ mainPc = "init"
    /\ \/ mainPc' = "start_audio" /\ UNCHANGED exit_report
       \/ mainPc' = "exited" /\ exit_report' = NoBackendMessage
    /\ UNCHANGED <<audioVars, captureVars, workerVars, guiVars, terminate, text_q, fed, app, resample, status_printed, polls_after>>

\* lines 331-332
MainStartAudio ==
    /\ mainPc = "start_audio"
    /\ mainPc' = "start_asr"
    /\ audioPc' = "pick"
    /\ UNCHANGED exit_report
    /\ UNCHANGED <<stream, captureVars, workerVars, guiVars, terminate, text_q, fed, app, resample, status_printed, polls_after>>

\* lines 335-336
MainStartAsr ==
    /\ mainPc = "start_asr"
    /\ mainPc' = "overlay"
    /\ workerPc' = "check"
    /\ UNCHANGED <<exit_report, audioVars, captureVars, src_buffer, asr_calls, folded,
                   windows_out, asr_failed, results, guiVars, terminate, text_q, fed, app, resample, status_printed, polls_after>>

\* lines 339-341: OverlayApp() (lines 231-269), then app.run()
MainOverlay ==
    /\ mainPc = "overlay"
    /\ mainPc' = "mainloop"
    /\ guiPc' = "idle"
    /\ lines' = <<>>
    /\ text_var' = WaitingText
    /\ UNCHANGED <<exit_report, audioVars, captureVars, workerVars, sunk, terminate, text_q, fed, app, resample, status_printed, polls_after>>

\* lines 340-342: the main loop ends without _quit (KeyboardInterrupt)
MainInterrupted ==
    /\ mainPc = "mainloop"
    /\ guiPc = "idle"
    /\ mainPc' = "finally"
    /\ guiPc' = "closed"
    /\ UNCHANGED <<exit_report, audioVars, captureVars, workerVars, lines, text_var, sunk, terminate,
                   text_q, fed, app, resample, status_printed, polls_after>>

\* a shutdown path that flips the flag instead of setting it
MainFinally_Flips ==
    /\ mainPc = "finally"
    /\ mainPc' = "join_audio"
    /\ terminate' = ~terminate
    /\ UNCHANGED <<exit_report, audioVars, captureVars, workerVars, guiVars, text_q, fed, app, resample, status_printed, polls_after>>

\* line 343
MainFinally ==
    /\ mainPc = "finally"
    /\ mainPc' = "join_audio"
    /\ terminate' = TRUE
    /\ UNCHANGED <<exit_report, audioVars, captureVars, workerVars, guiVars, text_q, fed, app, resample, status_printed, polls_after>>

\* line 344: returns when audio_thread has ended or after 1.0 s
MainJoinAudio ==
    /\ mainPc = "join_audio"
    /\ mainPc' = "join_asr"
    /\ UNCHANGED <<exit_report, audioVars, captureVars, workerVars, guiVars, terminate, text_q, fed, app, resample, status_printed, polls_after>>

\* lines 345-346: returns when asr_thread has ended or after 1.0 s; main
\* prints its last line and ends
MainJoinAsr ==
    /\ mainPc = "join_asr"
    /\ mainPc' = "exited"
    /\ exit_report' = ExitMessage
    /\ UNCHANGED <<audioVars, captureVars, workerVars, guiVars, terminate, text_q, fed, app, resample, status_printed, polls_after>>

(***************************************************************************)
(* audio_thread, lines 169-185, and audio_callback, lines 164-167.         *)
(***************************************************************************)
\* line 170: pick_blackhole_device returns an index or sys.exit(2), which
\* ends this thread only
AudioPick ==
    /\ Alive
    /\ audioPc = "pick"
    /\ \/ audioPc' = "open"
       \/ audioPc' = "dead"
    /\ UNCHANGED <<mainVars, stream, captureVars, workerVars, guiVars, terminate, text_q, fed, app, resample, status_printed, polls_after>>

\* lines 171-183: the stream opens at the device's rate, or raises
AudioOpen ==
    /\ Alive
    /\ audioPc = "open"
    /\ \/ \E sr \in DeviceRates :
            /\ stream' = [sr |-> sr]
            /\ audioPc' = "check"
       \/ /\ audioPc' = "dead"
          /\ UNCHANGED stream
    /\ UNCHANGED <<mainVars, captureVars, workerVars, guiVars, terminate, text_q, fed, app, resample, status_printed, polls_after>>

\* line 184: the loop test; leaving the with block closes the stream
AudioCheck ==
    /\ Alive
    /\ audioPc = "check"
    /\ IF terminate
       THEN audioPc' = "done" /\ stream' = NoStream
       ELSE audioPc' = "sleep" /\ UNCHANGED stream
    /\ UNCHANGED <<mainVars, captureVars, workerVars, guiVars, terminate, text_q, fed, app, resample, status_printed, polls_after>>

\* line 185
AudioSleep ==
    /\ Alive
    /\ audioPc = "sleep"
    /\ audioPc' = "check"
    /\ Polled("audio")
    /\ UNCHANGED <<mainVars, stream, captureVars, workerVars, guiVars, terminate, text_q, fed, app, resample, status_printed>>

\* lines 164-167: the device calls back with a frame of k blocks
\* a callback that leaves out a frame delivered with a status flag
Put_SkipFlagged(q, indata, status) == IF status THEN q ELSE Append(q, indata)

\* line 167: raw_q.put(indata.copy()), whatever the status
Put(q, indata, status) == Append(q, indata)

\* line 165: status is a CallbackFlags object, true when a flag
\* (input overflow, ...) is set; lines 165-166 print it to stderr
audio_callback ==
    /\ Alive
    /\ stream # NoStream
    /\ frames_in < MaxFrames
    /\ ~QueueFull(raw_q, raw_q_maxsize)
    /\ \E k \in FrameBlocks, status \in BOOLEAN :
         LET n == k * blocksize(stream.sr)
             indata == [pos |-> captured + 1, n |-> n]
         IN /\ raw_q' = Put(raw_q, indata, status)
            /\ captured' = captured + n
            /\ status_printed' = (status_printed \/ status)
    /\ frames_in' = frames_in + 1
    /\ UNCHANGED <<mainVars, audioVars, workerVars, guiVars, terminate, text_q, fed, app, resample, polls_after>>

(***************************************************************************)
(* asr_thread, lines 190-225.                                              *)
(***************************************************************************)
\* a loop test that reads the flag only after an empty wait
LoopExits_WhenIdle == terminate /\ raw_q = <<>>

\* a loop without the test: while True
LoopExits_Never == FALSE

\* line 198: while not terminate.is_set()
LoopExits == terminate

\* line 198
WorkerCheck ==
    /\ Alive
    /\ workerPc = "check"
    /\ workerPc' = IF LoopExits THEN "done" ELSE "get"
    /\ UNCHANGED <<mainVars, audioVars, captureVars, src_buffer, asr_calls, folded,
                   windows_out, asr_failed, results, guiVars, terminate, text_q, fed, app, resample, status_printed, polls_after>>

\* lines 200-221: a block is taken and folded in; a window goes to the engine
\* when the buffer holds the span (block and buf are the locals of the pass)
WorkerGet ==
    /\ Alive
    /\ workerPc = "get"
    /\ raw_q # <<>>
    /\ \E block \in {Head(raw_q)} : \E buf \in {Fold(src_buffer, block)} :
          /\ raw_q' = Tail(raw_q)
          /\ src_buffer' = buf
          /\ folded' = folded + block.n
          /\ IF HasSpan(buf)
             THEN /\ \E mono16k \in {Window(buf)} :
                        asr_calls' = Append(asr_calls, Numbered(mono16k, windows_out + 1))
                  /\ windows_out' = windows_out + 1
                  /\ workerPc' = AfterDispatch
             ELSE /\ workerPc' = "sleep"
                  /\ UNCHANGED <<asr_calls, windows_out>>
    /\ Polled("worker")
    /\ UNCHANGED <<mainVars, audioVars, captured, frames_in, asr_failed, results, guiVars,
                   terminate, text_q, fed, app, resample, status_printed>>

\* a worker driven by the clock: a wait that times out cuts a window from
\* what the buffer holds
WorkerTimeout_Emits ==
    /\ Alive
    /\ workerPc = "get"
    /\ raw_q = <<>>
    /\ IF HasSpan(src_buffer)
       THEN /\ \E mono16k \in {Window(src_buffer)} :
                  asr_calls' = Append(asr_calls, Numbered(mono16k, windows_out + 1))
            /\ windows_out' = windows_out + 1
            /\ workerPc' = AfterDispatch
       ELSE /\ workerPc' = "check"
            /\ UNCHANGED <<asr_calls, windows_out>>
    /\ Polled("worker")
    /\ UNCHANGED <<mainVars, audioVars, captureVars, src_buffer, folded,
                   asr_failed, results, guiVars, terminate, text_q, fed, app, resample, status_printed>>

\* lines 200-202: no block within 0.1 s
WorkerTimeout ==
    /\ Alive
    /\ workerPc = "get"
    /\ raw_q = <<>>
    /\ workerPc' = "check"
    /\ Polled("worker")
    /\ UNCHANGED <<mainVars, audioVars, captureVars, src_buffer, asr_calls, folded,
                   windows_out, asr_failed, results, guiVars, terminate, text_q, fed, app, resample, status_printed>>

\* a worker that puts its result twice: text_q.put(text); text_q.put(text)
AsrReturn_PutsTwice ==
    /\ Alive
    /\ workerPc = "call"
    /\ asr_calls # <<>>
    /\ \E raw \in EngineTexts(Head(asr_calls).seq) :
         LET text == Strip(raw)
         IN /\ text_q' = IF text # <<>> THEN text_q \o <<text, text>> ELSE text_q
            /\ results' = Append(results, text)
    /\ asr_calls' = Tail(asr_calls)
    /\ workerPc' = "sleep"
    /\ UNCHANGED <<mainVars, audioVars, captureVars, src_buffer, folded, windows_out,
                   asr_failed, guiVars, terminate, fed, app, resample, status_printed, polls_after>>

\* a worker that writes its result to the overlay itself:
\* app.lines.append(text) in asr_thread
AsrReturn_WritesSink ==
    /\ Alive
    /\ workerPc = "call"
    /\ asr_calls # <<>>
    /\ \E raw \in EngineTexts(Head(asr_calls).seq) :
         LET text == Strip(raw)
         IN /\ lines' = SinkAppend(lines, text)
            /\ results' = Append(results, text)
    /\ asr_calls' = Tail(asr_calls)
    /\ workerPc' = "sleep"
    /\ UNCHANGED <<mainVars, audioVars, captureVars, src_buffer, folded, windows_out,
                   asr_failed, guiPc, text_var, sunk, terminate, text_q, fed, app, resample, status_printed,
                   polls_after>>

\* lines 131-159 and 221-223: the engine returns; the stripped text is put on
\* text_q unless it is empty
AsrReturn ==
    /\ Alive
    /\ workerPc = "call"
    /\ asr_calls # <<>>
    /\ ~QueueFull(text_q, text_q_maxsize)
    /\ \E raw \in EngineTexts(Head(asr_calls).seq) :
         LET text == Strip(raw)
         IN /\ text_q' = IF text # <<>> THEN Append(text_q, text) ELSE text_q
            /\ results' = Append(results, text)
    /\ asr_calls' = Tail(asr_calls)
    /\ workerPc' = "sleep"
    /\ UNCHANGED <<mainVars, audioVars, captureVars, src_buffer, folded, windows_out,
                   asr_failed, guiVars, terminate, fed, app, resample, status_printed, polls_after>>

\* line 221: the engine raises; nothing in asr_thread catches it and the
\* thread ends
AsrRaise ==
    /\ Alive
    /\ workerPc = "call"
    /\ asr_calls # <<>>
    /\ asr_calls' = Tail(asr_calls)
    /\ asr_failed' = asr_failed + 1
    /\ workerPc' = "dead"
    /\ UNCHANGED <<mainVars, audioVars, captureVars, src_buffer, folded, windows_out,
                   results, guiVars, terminate, text_q, fed, app, resample, status_printed, polls_after>>

\* line 225
WorkerSleep ==
    /\ Alive
    /\ workerPc = "sleep"
    /\ workerPc' = "check"
    /\ UNCHANGED <<mainVars, audioVars, captureVars, src_buffer, asr_calls, folded,
                   windows_out, asr_failed, results, guiVars, terminate, text_q, fed, app, resample, status_printed, polls_after>>

(***************************************************************************)
(* OverlayApp, lines 298-318: callbacks of the Tk main loop.               *)
(***************************************************************************)
\* the timer of lines 269 and 318 fires: _tick begins
TickStart ==
    /\ mainPc = "mainloop"
    /\ guiPc = "idle"
    /\ guiPc' = "tick"
    /\ Polled("gui")
    /\ UNCHANGED <<mainVars, audioVars, captureVars, workerVars, lines, text_var, sunk,
                   terminate, text_q, fed, app, resample, status_printed>>

\* lines 309-313: one text is taken from text_q
TickGet ==
    /\ mainPc = "mainloop"
    /\ guiPc = "tick"
    /\ text_q # <<>>
    /\ text_q' = Tail(text_q)
    /\ lines' = SinkAppend(lines, Head(text_q))
    /\ sunk' = Append(sunk, Head(text_q))
    /\ UNCHANGED <<mainVars, audioVars, captureVars, workerVars, guiPc, text_var,
                   terminate, fed, app, resample, status_printed, polls_after>>

\* a tick that does not wait for queue.Empty: it ends with texts left on
\* text_q (one get_nowait per tick)
TickEnd_Early ==
    /\ mainPc = "mainloop"
    /\ guiPc = "tick"
    /\ text_var' = Join(lines)
    /\ guiPc' = "idle"
    /\ UNCHANGED <<mainVars, audioVars, captureVars, workerVars, lines, sunk,
                   terminate, text_q, fed, app, resample, status_printed, polls_after>>

\* lines 314-318: text_q is empty; the label is set and _tick rescheduled
TickEnd ==
    /\ mainPc = "mainloop"
    /\ guiPc = "tick"
    /\ text_q = <<>>
    /\ text_var' = Join(lines)
    /\ guiPc' = "idle"
    /\ UNCHANGED <<mainVars, audioVars, captureVars, workerVars, lines, sunk,
                   terminate, text_q, fed, app, resample, status_printed, polls_after>>

\* a clear that empties the label only: self.text_var.set("")
Clear_LabelOnly ==
    /\ mainPc = "mainloop"
    /\ guiPc = "idle"
    /\ text_var' = <<>>
    /\ sunk' = <<>>
    /\ UNCHANGED <<mainVars, audioVars, captureVars, workerVars, guiPc, lines, terminate,
                   text_q, fed, app, resample, status_printed, polls_after>>

\* lines 298-300, key C
Clear ==
    /\ mainPc = "mainloop"
    /\ guiPc = "idle"
    /\ lines' = <<>>
    /\ text_var' = <<>>
    /\ sunk' = <<>>
    /\ UNCHANGED <<mainVars, audioVars, captureVars, workerVars, guiPc, terminate,
                   text_q, fed, app, resample, status_printed, polls_after>>

\* lines 302-304, keys Q and Esc: the flag is set and the window destroyed,
\* which ends the main loop
Quit ==
    /\ mainPc = "mainloop"
    /\ guiPc = "idle"
    /\ terminate' = TRUE
    /\ guiPc' = "closed"
    /\ mainPc' = "finally"
    /\ UNCHANGED <<exit_report, audioVars, captureVars, workerVars, lines, text_var, sunk, text_q, fed, app, resample, status_printed, polls_after>>

Next ==
    \/ MainInitAsr \/ MainStartAudio \/ MainStartAsr \/ MainOverlay
    \/ MainInterrupted \/ MainFinally \/ MainJoinAudio \/ MainJoinAsr
    \/ AudioPick \/ AudioOpen \/ AudioCheck \/ AudioSleep \/ audio_callback
    \/ WorkerCheck \/ WorkerGet \/ WorkerTimeout \/ AsrReturn \/ AsrRaise \/ WorkerSleep
    \/ TickStart \/ TickGet \/ TickEnd \/ Clear \/ Quit

Spec == Init /\ [][Next]_vars

(***************************************************************************)
(* Fairness: main() keeps being scheduled, and its joins return when the   *)
(* thread has ended or the timeout has passed.  Nothing is assumed of the  *)
(* threads, the user's keys or the engine's answers.                       *)
(***************************************************************************)
MainNext ==
    MainInitAsr \/ MainStartAudio \/ MainStartAsr \/ MainOverlay
    \/ MainFinally \/ MainJoinAudio \/ MainJoinAsr

FairSpec == Spec /\ WF_vars(MainNext)

(***************************************************************************)
(* The caption sink on its own: any texts are put on text_q while the      *)
(* overlay ticks and is cleared.                                           *)
(***************************************************************************)
\* the texts the k-th put may carry: empty, blank, or a word of its own with
\* or without blanks around it
SinkTexts(k) ==
    { <<>>, <<" ">>, <<"t", ToString(k)>>, <<" ", "t", ToString(k), "\t">> }

InitSink ==
    /\ mainPc = "mainloop"
    /\ audioPc = "unstarted"
    /\ workerPc = "unstarted"
    /\ guiPc = "idle"
    /\ terminate = FALSE
    /\ raw_q = <<>>
    /\ text_q = <<>>
    /\ stream = NoStream
    /\ src_buffer = <<>>
    /\ asr_calls = <<>>
    /\ lines = <<>>
    /\ text_var = WaitingText
    /\ captured = 0
    /\ frames_in = 0
    /\ folded = 0
    /\ windows_out = 0
    /\ asr_failed = 0
    /\ sunk = <<>>
    /\ fed = 0
    /\ polls_after = [audio |-> 0, worker |-> 0, gui |-> 0]
    /\ exit_report = NoMessage
    /\ results = <<>>
    /\ resample = NoResample
    /\ app = NoApp
    /\ status_printed = FALSE

\* line 223 with any text: text_q.put(text)
SinkFeed ==
    /\ fed < MaxFeeds
    /\ ~QueueFull(text_q, text_q_maxsize)
    /\ \E t \in SinkTexts(fed + 1) : text_q' = Append(text_q, t)
    /\ fed' = fed + 1
    /\ UNCHANGED <<mainVars, audioVars, captureVars, workerVars, guiVars, terminate,
                   app, resample, status_printed, polls_after>>

SinkNext == SinkFeed \/ TickStart \/ TickGet \/ TickEnd \/ Clear

SinkSpec == InitSink /\ [][SinkNext]_vars

(***************************************************************************)
(* The pipeline while it runs: the stream is open, main() is in the main   *)
(* loop and nobody asks to stop.  The device keeps calling back, the       *)
(* worker keeps being scheduled, the engine answers or raises, and the     *)
(* timer of the overlay keeps firing.  audio_thread sleeps in its          *)
(* keep-alive loop, whose steps touch nothing else and are left out.       *)
(***************************************************************************)
InitRun ==
    /\ mainPc = "mainloop"
    /\ audioPc = "sleep"
    /\ workerPc = "check"
    /\ guiPc = "idle"
    /\ terminate = FALSE
    /\ raw_q = <<>>
    /\ text_q = <<>>
    /\ \E sr \in DeviceRates : stream = [sr |-> sr]
    /\ src_buffer = <<>>
    /\ asr_calls = <<>>
    /\ lines = <<>>
    /\ text_var = WaitingText
    /\ captured = 0
    /\ frames_in = 0
    /\ folded = 0
    /\ windows_out = 0
    /\ asr_failed = 0
    /\ sunk = <<>>
    /\ fed = 0
    /\ polls_after = [audio |-> 0, worker |-> 0, gui |-> 0]
    /\ exit_report = NoMessage
    /\ results = <<>>
    /\ resample = NoResample
    /\ app = NoApp
    /\ status_printed = FALSE

RunNext ==
    \/ audio_callback
    \/ WorkerCheck \/ WorkerGet \/ WorkerTimeout \/ AsrReturn \/ AsrRaise \/ WorkerSleep
    \/ TickStart \/ TickGet \/ TickEnd \/ Clear

RunSpec ==
    /\ InitRun
    /\ [][RunNext]_vars
    /\ WF_vars(audio_callback)
    /\ WF_vars(WorkerCheck \/ WorkerGet \/ WorkerTimeout \/ AsrReturn \/ AsrRaise \/ WorkerSleep)
    /\ WF_vars(TickStart \/ TickGet \/ TickEnd)

(***************************************************************************)
(* simple_resample on its own: one call with any array and rates.          *)
(***************************************************************************)
InitResample ==
    /\ mainPc = "init"
    /\ audioPc = "unstarted"
    /\ workerPc = "unstarted"
    /\ guiPc = "none"
    /\ terminate = FALSE
    /\ raw_q = <<>>
    /\ text_q = <<>>
    /\ stream = NoStream
    /\ src_buffer = <<>>
    /\ asr_calls = <<>>
    /\ lines = <<>>
    /\ text_var = <<>>
    /\ captured = 0
    /\ frames_in = 0
    /\ folded = 0
    /\ windows_out = 0
    /\ asr_failed = 0
    /\ sunk = <<>>
    /\ fed = 0
    /\ polls_after = [audio |-> 0, worker |-> 0, gui |-> 0]
    /\ exit_report = NoMessage
    /\ results = <<>>
    /\ status_printed = FALSE
    /\ app = NoApp
    /\ \E x \in Inputs, src_sr \in ResampleRates, dst_sr \in ResampleRates :
         resample = [x |-> x, src_sr |-> src_sr, dst_sr |-> dst_sr, y |-> <<>>, done |-> FALSE]

\* the call returns
Resample ==
    /\ ~resample.done
    /\ resample' = [resample EXCEPT
                       !.y = simple_resample(resample.x, resample.src_sr, resample.dst_sr),
                       !.done = TRUE]
    /\ UNCHANGED <<mainVars, audioVars, captureVars, workerVars, guiVars, terminate,
                   text_q, fed, app, status_printed, polls_after>>

ResampleNext == Resample

ResampleSpec == InitResample /\ [][ResampleNext]_vars

(***************************************************************************)
(* realtime_subtitles_now.py: RealtimeSubtitlesNow after __init__, lines   *)
(* 17-41.  start_audio_capture has found a device and started audio_thread *)
(* and audio_processing_thread (lines 190-229).  app holds the object's    *)
(* fields running, audio_queue, subtitle_queue and whether device_name has *)
(* "blackhole" in it; audio_buffer, the local of audio_processing_thread;  *)
(* pc and audio_pc, where the two threads are; accepted, the samples line  *)
(* 252 has added to audio_buffer so far; and trimmed, audio_buffer as line *)
(* 257 left it when it was last full.  A sample of audio_buffer is its     *)
(* number in the order in which the samples were added.                    *)
(***************************************************************************)
\* lines 27-28
sample_rate == 16000
chunk_size == 1024
\* lines 234-235: int(self.sample_rate * 1.5)
buffer_samples == (sample_rate * 15) \div 10

\* level_percent of line 204 as the thresholds of lines 260, 267 and 274
\* see it: not above 8, above 8 (and not above 25), above 50
Levels == {8, 9, 51}
\* lines 267-310: the list random.choice picks from
Band(level) == IF level > 50 THEN "loud" ELSE IF level > 25 THEN "mid" ELSE "quiet"
\* line 313: random.choice over four subtitles, of which the first and the
\* last are examined
Picks == {1, 4}

InitNow ==
    /\ mainPc = "init"
    /\ audioPc = "unstarted"
    /\ workerPc = "unstarted"
    /\ guiPc = "none"
    /\ terminate = FALSE
    /\ raw_q = <<>>
    /\ text_q = <<>>
    /\ stream = NoStream
    /\ src_buffer = <<>>
    /\ asr_calls = <<>>
    /\ lines = <<>>
    /\ text_var = <<>>
    /\ captured = 0
    /\ frames_in = 0
    /\ folded = 0
    /\ windows_out = 0
    /\ asr_failed = 0
    /\ sunk = <<>>
    /\ fed = 0
    /\ polls_after = [audio |-> 0, worker |-> 0, gui |-> 0]
    /\ exit_report = NoMessage
    /\ results = <<>>
    /\ resample = NoResample
    /\ status_printed = FALSE
    /\ \E blackhole \in BOOLEAN :
         app = [pc |-> "check", audio_pc |-> "opening", running |-> TRUE,
                blackhole |-> blackhole, audio_queue |-> <<>>, subtitle_queue |-> <<>>,
                audio_buffer |-> <<>>, trimmed |-> <<>>, accepted |-> 0]

pipelineVars ==
    <<mainVars, audioVars, captureVars, workerVars, guiVars, terminate, text_q, fed,
      resample, status_printed, polls_after>>

\* lines 211-216 and 219-221: sd.InputStream opens, or raises
NowAudioOpen ==
    /\ app.pc # "none"
    /\ app.audio_pc = "opening"
    /\ \E ok \in BOOLEAN : app' = [app EXCEPT !.audio_pc = IF ok THEN "run" ELSE "failed"]
    /\ UNCHANGED pipelineVars

\* lines 217-218: the keep-alive loop sees running false and the stream closes
NowAudioExit ==
    /\ app.pc # "none"
    /\ app.audio_pc = "run"
    /\ ~app.running
    /\ app' = [app EXCEPT !.audio_pc = "done"]
    /\ UNCHANGED pipelineVars

\* lines 197-207: the callback of the stream, blocksize chunk_size
Now_audio_callback ==
    /\ app.pc # "none"
    /\ app.audio_pc = "run"
    /\ app.accepted + (Len(app.audio_queue) + 1) * chunk_size <= MaxChunks * chunk_size
    /\ Len(app.audio_queue) < MaxQueued
    /\ \E level \in Levels :
         app' = [app EXCEPT !.audio_queue = Append(@, [n |-> chunk_size, level |-> level])]
    /\ UNCHANGED pipelineVars

\* line 238: while self.running
ProcessingCheck ==
    /\ app.pc = "check"
    /\ app' = [app EXCEPT !.pc = IF app.running THEN "get" ELSE "done"]
    /\ UNCHANGED pipelineVars

\* a buffer that rolls on: line 318 left out
AfterProcessing_Rolling(buf) == buf

\* line 318: audio_buffer = np.array([], dtype=np.float32)
AfterProcessing(buf) == <<>>

\* line 257: audio_buffer[-buffer_samples:]
KeepLast(buf) == BufTakeLast(buf, buffer_samples)

\* lines 260-315: the subtitle queue after a full buffer with this level;
\* due is whether time.time() is more than 1.5 s past last_update
SubtitlesAfter(q, level, due, pick) ==
    IF level > 8 /\ due
    THEN Append(q, [blackhole |-> app.blackhole, band |-> Band(level), pick |-> pick])
    ELSE q

\* lines 241-318: one pass of the loop that gets a chunk
audio_processing_thread ==
    /\ app.pc = "get"
    /\ app.audio_queue # <<>>
    /\ \E item \in {Head(app.audio_queue)} :
       \E joined \in {BufConcat(app.audio_buffer, <<app.accepted + 1, app.accepted + item.n>>)} :
         IF BufLen(joined) >= buffer_samples
         THEN \E due \in BOOLEAN, pick \in Picks :
                /\ (item.level > 8 /\ due) => Len(app.subtitle_queue) < MaxSubs
                /\ ~(item.level > 8 /\ due) => pick = 1
                /\ app' = [app EXCEPT
                              !.pc = "check",
                              !.audio_queue = Tail(@),
                              !.accepted = @ + item.n,
                              !.trimmed = KeepLast(joined),
                              !.audio_buffer = AfterProcessing(KeepLast(joined)),
                              !.subtitle_queue = SubtitlesAfter(@, item.level, due, pick)]
         ELSE app' = [app EXCEPT
                         !.pc = "check",
                         !.audio_queue = Tail(@),
                         !.accepted = @ + item.n,
                         !.audio_buffer = joined]
    /\ UNCHANGED pipelineVars

\* lines 244 and 322-323: level_var.set raises in this thread (Tk is not
\* thread-safe); the chunk is lost and the loop goes on
ProcessingRaise ==
    /\ app.pc = "get"
    /\ app.audio_queue # <<>>
    /\ app' = [app EXCEPT !.pc = "check", !.audio_queue = Tail(@)]
    /\ UNCHANGED pipelineVars

\* lines 241 and 320-321: no chunk within 0.1 s
ProcessingTimeout ==
    /\ app.pc = "get"
    /\ app.audio_queue = <<>>
    /\ app' = [app EXCEPT !.pc = "check"]
    /\ UNCHANGED pipelineVars

\* lines 328-331: update_gui takes a subtitle
update_gui ==
    /\ app.pc # "none"
    /\ app.subtitle_queue # <<>>
    /\ app' = [app EXCEPT !.subtitle_queue = Tail(@)]
    /\ UNCHANGED pipelineVars

\* lines 340-343 and 351-352
quit_app ==
    /\ app.pc # "none"
    /\ app.running
    /\ app' = [app EXCEPT !.running = FALSE]
    /\ UNCHANGED pipelineVars

NowNext ==
    \/ NowAudioOpen \/ NowAudioExit \/ Now_audio_callback
    \/ ProcessingCheck \/ audio_processing_thread \/ ProcessingRaise \/ ProcessingTimeout
    \/ update_gui \/ quit_app

NowSpec == InitNow /\ [][NowNext]_vars

(***************************************************************************)
(* Properties.                                                             *)
(***************************************************************************)
\* C1: at most one call to the transcription engine is in progress in any
\* reachable state, whatever the interleaving of the callback, the worker
\* and the display tick.
C1_SingleFlight == Len(asr_calls) <= 1

\* a call is in progress while the callback has queued frames and _tick runs
C1_Witness == Len(asr_calls) = 1 /\ Len(raw_q) >= 2 /\ guiPc = "tick"

\* the largest capacity the runs of the model can tell from no capacity: one
\* less than the frames the callback delivers
ClaimedCapacity == MaxFrames - 1

\* C2: the frame queue never holds more than a fixed capacity: the callback
\* drops the oldest frame when the queue is full, and does not block.
C2_RawQueueBounded == Len(raw_q) <= ClaimedCapacity

\* C3: the rolling buffer never holds more than 48000*60 samples, and it is
\* the suffix of the samples folded in so far (the oldest are removed).
C3_RetentionCap ==
    LET kept == Min(folded, 48000 * 60)
    IN /\ BufLen(src_buffer) <= 48000 * 60
       /\ src_buffer = IF folded = 0 THEN <<>>
                       ELSE << <<folded - kept + 1, folded>> >>

\* more than the cap was folded in, and the buffer was trimmed to it
C3_Witness == folded > 48000 * 60 /\ BufLen(src_buffer) = 48000 * 60

\* C4: every window handed to the engine has exactly 40000 samples
\* (2.5 s at 16 kHz), at every device rate.
C4_WindowLength == \A i \in DOMAIN asr_calls : asr_calls[i].n = 40000

\* a window cut from a longer resampled span is with the engine, the device
\* running at 44100 Hz
C4_Witness ==
    /\ asr_calls # <<>>
    /\ stream.sr = 44100
    /\ Head(asr_calls).rlen > Head(asr_calls).n

\* a text of blanks only
IsBlank(t) == \A i \in DOMAIN t : t[i] \in Whitespace

\* x is t without the blanks around it
IsTrimOf(x, t) ==
    \E i, j \in DOMAIN t :
        /\ x = SubSeq(t, i, j)
        /\ i <= j
        /\ t[i] \notin Whitespace /\ t[j] \notin Whitespace
        /\ \A k \in DOMAIN t : (k < i \/ k > j) => t[k] \in Whitespace

\* the non-blank texts of s, in order
NonBlank(s) == SelectSeq(s, LAMBDA t : ~IsBlank(t))

\* the last n elements of s
LastOf(s, n) == SubSeq(s, Len(s) - Min(n, Len(s)) + 1, Len(s))

\* C5: the sink holds at most KeepLines lines, and they are the most recent
\* non-blank texts appended since the last clear, in their order.
C5_SinkKeepsLast ==
    /\ Len(lines) <= KEEP_LINES
    /\ Len(lines) = Min(KEEP_LINES, Len(NonBlank(sunk)))
    /\ LET recent == LastOf(NonBlank(sunk), KEEP_LINES)
       IN \A i \in DOMAIN lines : IsTrimOf(lines[i], recent[i])

\* six distinct non-blank texts were appended and the sink holds four lines
C5_Witness ==
    /\ Len(NonBlank(sunk)) = 6
    /\ Cardinality({ lines[i] : i \in DOMAIN lines }) = 4
    /\ Len(lines) = 4

\* C6: a tick that takes a blank text leaves the lines as they are; one that
\* takes a non-blank text stores it without the blanks around it.
C6_BlankIgnored ==
    [][ (text_q # <<>> /\ text_q' = Tail(text_q)) =>
            IF IsBlank(Head(text_q))
            THEN lines' = lines
            ELSE /\ lines' # <<>>
                 /\ IsTrimOf(lines'[Len(lines')], Head(text_q)) ]_vars

\* the sink has taken a blank text and a text with blanks around it
C6_Witness ==
    /\ lines # <<>>
    /\ \E i \in DOMAIN sunk : IsBlank(sunk[i])
    /\ \E i \in DOMAIN sunk : ~IsBlank(sunk[i]) /\ Head(sunk[i]) \in Whitespace

\* C7: an engine call that fails does not stop the worker: it stays in its
\* loop (and goes on to the next window) until the stop request.
C7_FailureIsolated ==
    (asr_failed > 0 /\ ~terminate) => workerPc \in {"check", "get", "call", "sleep"}

\* C8: while a call is outstanding, at most one further window waits: once
\* the buffer holds the span, every queued frame is a window to come.
C8_OnePending ==
    (asr_calls # <<>> /\ HasSpan(src_buffer)) => Len(raw_q) <= 1

\* C9: while a call is outstanding, queued frames keep being dequeued and
\* folded into the rolling buffer.
C9_NotStarved ==
    (asr_calls # <<>> /\ raw_q # <<>> /\ Alive /\ ~terminate) => ENABLED WorkerGet

\* every loop has ended: the thread left its loop, or the process is gone
LoopsEnded ==
    \/ ~Alive
    \/ /\ audioPc \in {"unstarted", "done", "dead"}
       /\ workerPc \in {"unstarted", "done", "dead"}
       /\ guiPc \in {"none", "closed"}

DeviceFailed == audioPc = "dead"

\* C11: when the capture stream cannot be opened the pipeline stops without
\* reaching Running: after the failure main() launches no worker and no
\* display loop, and does not enter the main loop.
C11_DeviceErrorStops ==
    [][ DeviceFailed =>
            /\ (workerPc = "unstarted" => workerPc' = "unstarted")
            /\ (guiPc = "none" => guiPc' = "none")
            /\ (mainPc # "mainloop" => mainPc' # "mainloop") ]_vars

\* threading.Thread.is_alive(): the thread was started and has not ended
IsAlive(pc) == pc \notin {"unstarted", "done", "dead"}

\* C12: the stop is reported as a normal exit only if every thread has
\* joined: when main() ends with its normal last line, audio_thread and
\* asr_thread have ended (a thread cut off by the end of the process had not
\* joined within its timeout).
C12_AbnormalStopReported ==
    exit_report = ExitMessage => ~IsAlive(audioPc) /\ ~IsAlive(workerPc)

\* the non-empty texts of s, in order
NonEmpty(s) == SelectSeq(s, LAMBDA t : t # <<>>)

\* C13: empty results never reach the sink, and the lines are exactly the
\* non-empty results of the engine in the order of its calls: the texts
\* taken since the last clear, followed by those waiting on text_q, are the
\* latest non-empty results, and the lines are the last KEEP_LINES taken.
C13_EmptyNeverSunk ==
    LET ne == NonEmpty(results)
        handed == sunk \o text_q
    IN /\ \A i \in DOMAIN lines : lines[i] # <<>>
       /\ \A i \in DOMAIN handed : handed[i] # <<>>
       /\ Len(handed) <= Len(ne)
       /\ handed = SubSeq(ne, Len(ne) - Len(handed) + 1, Len(ne))
       /\ lines = LastOf(sunk, KEEP_LINES)

\* the engine returned nothing for the first window and words for the
\* second, and the sink holds exactly one line, those words
C13_Witness ==
    /\ Len(results) = 2
    /\ results[1] = <<>>
    /\ results[2] # <<>>
    /\ lines = <<results[2]>>
    /\ text_q = <<>>

\* an array of zeros
AllZero(x) == \A i \in DOMAIN x : x[i] = Frac(0, 1)

\* C14: simple_resample of an all-zero array of length L is an all-zero
\* array of length round(L * dst_sr / src_sr), also when that is 0 or 1.
C14_ZeroInZeroOut ==
    (resample.done /\ AllZero(resample.x)) =>
        /\ AllZero(resample.y)
        /\ Len(resample.y) =
               RoundHalfEven(Len(resample.x) * resample.dst_sr, resample.src_sr)

\* C15: at equal rates simple_resample returns its argument as it is: the
\* same samples in the same order, for the empty array too.
C15_SameRateIdentity ==
    (resample.done /\ resample.src_sr = resample.dst_sr) => resample.y = resample.x

\* a call at equal rates has returned an array of several samples that are
\* not all the same
C15_Witness ==
    /\ resample.done
    /\ resample.src_sr = resample.dst_sr
    /\ Len(resample.x) >= 3
    /\ \E i, j \in DOMAIN resample.x : resample.x[i] # resample.x[j]

\* the samples of BLOCK_SEC + OVERLAP_SEC of audio at the rate sr
SpanAt(sr) == ((BLOCK_MS + OVERLAP_MS) * sr) \div 1000

\* C16: the span cut for a window and the rate given to the resampler come
\* from the rate of the open stream: the span has (BLOCK_SEC + OVERLAP_SEC)
\* times that rate samples, and is resampled from that rate.
C16_SpanFromDeviceRate ==
    \A i \in DOMAIN asr_calls :
        stream # NoStream =>
            /\ BufLen(asr_calls[i].span) = SpanAt(stream.sr)
            /\ asr_calls[i].rlen = ResampleLen(SpanAt(stream.sr), stream.sr, TARGET_SR)

\* the lifecycle state of the pipeline, from where main() is: before it
\* starts anything or after it has ended, starting its threads and the
\* overlay, in the main loop, or in its finally block
Phase ==
    CASE mainPc \in {"init", "exited"} -> "Stopped"
      [] mainPc \in {"start_audio", "start_asr", "overlay"} -> "Starting"
      [] mainPc = "mainloop" -> "Running"
      [] OTHER -> "Stopping"

LifecycleEdges ==
    { <<"Stopped", "Starting">>, <<"Starting", "Running">>, <<"Running", "Stopping">>,
      <<"Stopping", "Stopped">>, <<"Starting", "Stopped">> }

\* C17: the pipeline moves only along Stopped -> Starting -> Running ->
\* Stopping -> Stopped (and Starting -> Stopped); it enters Running only with
\* the capture stream open and the worker and the display launched, and
\* never goes from Stopping back to Running.
C17_Lifecycle ==
    [][ /\ Phase' # Phase => <<Phase, Phase'>> \in LifecycleEdges
        /\ (Phase # "Running" /\ Phase' = "Running") =>
               /\ stream' # NoStream
               /\ workerPc' # "unstarted"
               /\ guiPc' \in {"idle", "tick"}
        /\ Phase = "Stopping" => Phase' # "Running" ]_vars

\* the steps of each stage
AudioThreadNext == AudioPick \/ AudioOpen \/ AudioCheck \/ AudioSleep
WorkerNext ==
    WorkerCheck \/ WorkerGet \/ WorkerTimeout \/ AsrReturn \/ AsrRaise \/ WorkerSleep
DisplayNext == TickStart \/ TickGet \/ TickEnd

\* C18: before a stop request the stages do not deadlock: while the main
\* loop runs one of capture, worker and display can step, and no stage waits
\* on another: a thread in its loop can step, the callback can put a frame,
\* the worker's get takes a frame or times out, a tick goes on.
C18_NoDeadlock ==
    (Alive /\ ~terminate) =>
        /\ mainPc = "mainloop" =>
               \/ ENABLED AudioThreadNext
               \/ ENABLED audio_callback
               \/ ENABLED WorkerNext
               \/ ENABLED DisplayNext
        /\ IsAlive(audioPc) => ENABLED AudioThreadNext
        /\ (stream # NoStream /\ frames_in < MaxFrames) => ENABLED audio_callback
        /\ IsAlive(workerPc) => ENABLED WorkerNext
        /\ (mainPc = "mainloop" /\ guiPc \in {"idle", "tick"}) => ENABLED DisplayNext

\* under load before a stop request: the engine is at work, a frame is
\* queued, a tick is under way, and the device has more to deliver
C18_Witness ==
    /\ mainPc = "mainloop"
    /\ ~terminate
    /\ workerPc = "call"
    /\ raw_q # <<>>
    /\ guiPc = "tick"
    /\ stream # NoStream
    /\ frames_in < MaxFrames

\* C19: the results waiting on text_q for the display never exceed a fixed
\* capacity (the oldest is dropped on overflow); as for C2, the capacity is
\* the largest the runs of the model can tell from none.
C19_TextQueueBounded == Len(text_q) <= ClaimedCapacity

\* C20: appends, reads of the joined text and clears of the sink exclude one
\* another.  Between two callbacks of the main loop the text shown is the
\* join of the lines (or the first text, before any line): no append or
\* clear is seen half done.  Every step that changes the lines or the text
\* shown is a step of the main thread (the constructor, _tick, _clear) and
\* changes nothing of the worker or the callback, and a line is added only
\* by taking the text at the head of text_q.
C20_SinkOneContext ==
    /\ [](guiPc = "idle" =>
             \/ text_var = Join(lines)
             \/ lines = <<>> /\ text_var = WaitingText)
    /\ [][ /\ (lines' # lines \/ text_var' # text_var) =>
                  /\ mainPc \in {"overlay", "mainloop"}
                  /\ UNCHANGED <<audioVars, captureVars, workerVars>>
           /\ (lines' # lines /\ lines' # <<>>) =>
                  /\ text_q # <<>>
                  /\ text_q' = Tail(text_q)
                  /\ lines'[Len(lines')] = Strip(Head(text_q)) ]_vars

\* the sink holds a line and _tick is taking the next text while the worker
\* is inside an engine call
C20_Witness ==
    /\ lines # <<>>
    /\ guiPc = "tick"
    /\ text_q # <<>>
    /\ workerPc = "call"

\* C21: a window is with the engine only when the rolling buffer holds at
\* least BLOCK_SEC + OVERLAP_SEC seconds of samples at the rate of the
\* stream, and the window is built from the most recent span of that
\* duration.
C21_SpanGate ==
    \A i \in DOMAIN asr_calls :
        stream # NoStream =>
            /\ BufLen(src_buffer) >= SpanAt(stream.sr)
            /\ asr_calls[i].span = BufTakeLast(src_buffer, SpanAt(stream.sr))

\* C22: once the device has delivered BLOCK_SEC + OVERLAP_SEC seconds of
\* audio and the pipeline keeps running, a window is passed to the engine.
C22_WindowEventually ==
    (stream # NoStream /\ captured >= SpanAt(stream.sr)) ~> (windows_out >= 1)

\* 3 s of audio at 48 kHz came in one frame, and a window went to the engine
C22_Witness ==
    /\ stream.sr = 48000
    /\ frames_in = 1
    /\ captured = SpanAt(48000)
    /\ windows_out = 1

\* the position in the stream of the last sample of a buffer
NewestOf(buf) == buf[Len(buf)][2]

\* C23: the truncation keeps the most recent samples: the window is the end
\* of the resampled span, whose last sample is the newest sample of the
\* rolling buffer.
C23_TruncateKeepsNewest ==
    \A i \in DOMAIN asr_calls :
        LET w == asr_calls[i]
        IN /\ w.from + w.n - 1 = w.rlen
           /\ NewestOf(w.span) = NewestOf(src_buffer)
           /\ NewestOf(src_buffer) = folded

\* a window cut from a resampled span that is longer than it, while the
\* buffer holds more than the span
C23_Witness ==
    /\ asr_calls # <<>>
    /\ Head(asr_calls).rlen > Head(asr_calls).n
    /\ Head(asr_calls).from > 1
    /\ BufLen(src_buffer) > need_src_len

\* C24: the retention cap is larger than the span the worker asks for, so
\* the trim never leaves less than the span: once that many samples have
\* been folded in, the buffer holds the span for good; and the trim does
\* not block: a waiting frame can always be taken and folded in.
C24_CapAboveSpan ==
    /\ MaxRetentionSamples > need_src_len
    /\ folded >= need_src_len => HasSpan(src_buffer)
    /\ (Alive /\ workerPc = "get" /\ raw_q # <<>>) => ENABLED WorkerGet

\* the buffer was trimmed to the cap, a window was cut from it, and the
\* next frame waits to be folded in
C24_Witness ==
    /\ folded > MaxRetentionSamples
    /\ BufLen(src_buffer) = MaxRetentionSamples
    /\ windows_out >= 2
    /\ workerPc = "get"
    /\ raw_q # <<>>

\* the position in the stream of the oldest sample a window is computed
\* from: the resampled span lies evenly over its span (np.linspace), and
\* the window starts at the index from of the resampled span
OldestOf(w) ==
    w.span[1][1] + ((w.from - 1) * (BufLen(w.span) - 1)) \div (w.rlen - 1)

\* the number of samples of the stream two windows are both computed from
Shared(w1, w2) ==
    LET k == NewestOf(w1.span) - OldestOf(w2) + 1
    IN IF k > 0 THEN k ELSE 0

\* C25: two windows emitted one after the other share OVERLAP_SEC seconds of
\* audio (to a sample).  Every fold into a buffer that holds the span emits
\* a window, so when a window is emitted from a buffer that already held
\* the span, the window before it was cut from that buffer as it was.
C25_OverlapShared ==
    [][ (stream # NoStream /\ windows_out >= 1 /\ HasSpan(src_buffer)
            /\ windows_out' = windows_out + 1) =>
          LET shared == Shared(Window(src_buffer), Window(src_buffer'))
              due == (OVERLAP_MS * stream.sr) \div 1000
          IN shared - due \in {0 - 1, 0, 1} ]_vars

\* the words asr_transcribe_chunk returns for window number k, when it
\* returns any
WordsOf(k) == Strip(<<" ", "w", ToString(k), " ">>)

\* C26: a window whose transcription is not empty yields exactly one text:
\* the step in which the engine returns puts that text once on text_q, and
\* nothing else is ever put; the texts taken and those waiting are in the
\* order of their windows with none twice; a text is taken off text_q in
\* the step that appends it; and while the overlay keeps ticking text_q is
\* emptied again and again, so that every waiting text gets appended.
C26_ResultAppendedOnce ==
    /\ [][ /\ results' # results =>
                  LET text == results'[Len(results')]
                  IN text_q' = IF text # <<>> THEN Append(text_q, text) ELSE text_q
           /\ Len(text_q') > Len(text_q) => results' # results
           /\ Len(sunk') > Len(sunk) =>
                  /\ text_q' = Tail(text_q)
                  /\ lines' = LastLines(Append(lines, Head(text_q))) ]_vars
    /\ [](LET handed == sunk \o text_q
          IN \A i, j \in DOMAIN handed :
                i < j => \E a, b \in 1..MaxFrames :
                            /\ a < b
                            /\ handed[i] = WordsOf(a)
                            /\ handed[j] = WordsOf(b))
    /\ (text_q # <<>>) ~> (text_q = <<>>)

\* three windows were transcribed to words, and the lines are those words
\* in the order of the windows
C26_Witness ==
    /\ Len(results) = 3
    /\ lines = <<WordsOf(1), WordsOf(2), WordsOf(3)>>
    /\ text_q = <<>>

\* C27: every frame taken from raw_q is folded in once and in the order of
\* arrival.  The frames waiting on raw_q are the samples delivered and not
\* yet folded, in stream order; the frame taken is the one that follows the
\* last sample folded; and the buffer is then one unbroken run of the
\* stream that ends with that frame and starts no earlier than before (the
\* trim only removes the oldest samples).
C27_FoldedInOrder ==
    /\ [](/\ raw_q = <<>> => folded = captured
          /\ raw_q # <<>> =>
                /\ Head(raw_q).pos = folded + 1
                /\ raw_q[Len(raw_q)].pos + raw_q[Len(raw_q)].n - 1 = captured
                /\ \A i \in 1..(Len(raw_q) - 1) :
                      raw_q[i + 1].pos = raw_q[i].pos + raw_q[i].n)
    /\ [][ Len(raw_q') < Len(raw_q) =>
             LET block == Head(raw_q)
             IN /\ raw_q' = Tail(raw_q)
                /\ folded' = folded + block.n
                /\ Len(src_buffer') = 1
                /\ NewestOf(src_buffer') = block.pos + block.n - 1
                /\ src_buffer'[1][1] <= block.pos
                /\ src_buffer # <<>> =>
                      /\ src_buffer'[1][1] >= src_buffer[1][1]
                      /\ NewestOf(src_buffer) = block.pos - 1 ]_vars

\* two frames were folded in, the second onto the first, and a third waits
C27_Witness ==
    /\ frames_in = 3
    /\ Len(raw_q) = 1
    /\ folded > 0
    /\ captured = folded + Head(raw_q).n
    /\ src_buffer = << <<1, folded>> >>
    /\ folded > need_src_len

\* C28: a frame delivered with a status flag is only logged.  The callback
\* puts every frame it is given at the end of raw_q, in stream order,
\* whether or not it printed a status line; printing the line happens in
\* no other step and changes neither the stop flag nor the place any thread
\* is at; and with a status line on stderr every stage can step as before:
\* the capture loop, the callback, the worker and the display.
C28_StatusOnlyLogged ==
    /\ [][ /\ frames_in' > frames_in =>
                /\ raw_q' = Append(raw_q, [pos |-> captured + 1, n |-> captured' - captured])
                /\ captured' > captured
                /\ <<mainPc, audioPc, workerPc, guiPc, terminate>>' =
                       <<mainPc, audioPc, workerPc, guiPc, terminate>>
           /\ status_printed' # status_printed => frames_in' > frames_in ]_vars
    /\ []((status_printed /\ Alive /\ ~terminate) =>
            /\ IsAlive(audioPc) => ENABLED AudioThreadNext
            /\ (stream # NoStream /\ frames_in < MaxFrames) => ENABLED audio_callback
            /\ IsAlive(workerPc) => ENABLED WorkerNext
            /\ (mainPc = "mainloop" /\ guiPc \in {"idle", "tick"}) => ENABLED DisplayNext)

\* a status line was printed, and every frame delivered, the flagged one
\* among them, was folded in, cut into a window and its text displayed
C28_Witness ==
    /\ status_printed
    /\ ~terminate
    /\ frames_in >= 2
    /\ raw_q = <<>>
    /\ folded = captured
    /\ windows_out >= 1
    /\ lines # <<>>
    /\ text_var = Join(lines)

\* C29: when a tick ends, the label is given the lines of the sink joined
\* by newlines in the order they were appended; a clear leaves the sink
\* without lines and the label empty; and what is appended after a clear
\* goes into the emptied sink: with nothing non-blank taken since the clear
\* there are no lines, and the first non-blank text taken is the only line.
C29_DisplayFollowsSink ==
    /\ [][ /\ (guiPc = "tick" /\ guiPc' = "idle") =>
                /\ lines' = lines
                /\ text_var' = Join(lines')
           /\ (guiPc = "idle" /\ guiPc' = "idle" /\ text_q' = text_q /\ fed' = fed) =>
                /\ lines' = <<>>
                /\ text_var' = <<>>
                /\ sunk' = <<>> ]_vars
    /\ [](/\ NonBlank(sunk) = <<>> => lines = <<>>
          /\ Len(NonBlank(sunk)) = 1 => lines = <<Strip(NonBlank(sunk)[1])>>)

\* two texts were taken and cleared away; the third, taken after the clear,
\* is the only line and the label shows it
C29_Witness ==
    /\ fed = 3
    /\ text_q = <<>>
    /\ guiPc = "idle"
    /\ Len(sunk) = 1
    /\ lines = << <<"t", "3">> >>
    /\ text_var = <<"t", "3">>

\* C30: once the stop flag is set the worker begins at most one more engine
\* call, and only for a frame it had taken from raw_q before the flag was
\* set, and puts at most one more text.  A window goes to the engine in the
\* pass that takes its frame: a call begun with the flag set takes no frame
\* in that step, and a text is put with the flag set only for a call begun
\* before it or in the one queue wait that was under way.
C30_OneMoreCall ==
    [][ /\ (terminate /\ windows_out' > windows_out) => raw_q' = raw_q
        /\ (terminate /\ results' # results) => polls_after.worker <= 1 ]_vars

\* how far asr_thread is in a pass of its loop, lines 198-225
PassRank(pc) ==
    CASE pc = "get" -> 1
      [] pc = "call" -> 2
      [] pc = "sleep" -> 3
      [] pc = "check" -> 4
      [] OTHER -> 5

\* C30 as the code has it: once the stop flag is set the worker only moves
\* on through the pass it is in and then leaves the loop, so it begins at
\* most one more engine call and puts at most one more text.  The call is
\* begun in the one queue wait that was under way when the flag was set,
\* for the frame that wait returns, and a text is put only when a call
\* returns.
C30_OneMoreCallOrWait ==
    [][ terminate =>
          /\ PassRank(workerPc') >= PassRank(workerPc)
          /\ windows_out' > windows_out =>
                /\ windows_out' = windows_out + 1
                /\ workerPc = "get" /\ workerPc' = "call"
                /\ polls_after.worker = 0 /\ polls_after'.worker = 1
          /\ text_q' # text_q /\ guiPc' = guiPc =>
                /\ text_q' = Append(text_q, results'[Len(results')])
                /\ workerPc = "call" /\ workerPc' = "sleep" ]_vars

\* the flag was set while the worker waited on raw_q; the wait returned a
\* frame and its window is with the engine
C30_Witness ==
    /\ terminate
    /\ Alive
    /\ workerPc = "call"
    /\ polls_after.worker = 1
    /\ asr_calls # <<>>
    /\ windows_out >= 2

\* C31: the stop flag is monotonic.  No step clears it once it is set; it is
\* set only by the quit handler and by main's shutdown path; and when the
\* shutdown path sets it after the quit handler has, the flag stays as it
\* is and the step does nothing but move main on to its joins.
C31_FlagMonotonic ==
    [][ /\ terminate => terminate'
        /\ (~terminate /\ terminate') =>
              \/ mainPc = "mainloop" /\ mainPc' = "finally" /\ guiPc' = "closed"
              \/ mainPc = "finally" /\ mainPc' = "join_audio"
        /\ (terminate /\ mainPc = "finally" /\ mainPc' # mainPc) =>
              /\ terminate'
              /\ mainPc' = "join_audio"
              /\ <<exit_report, audioVars, captureVars, workerVars, guiVars, text_q,
                    polls_after>>' =
                 <<exit_report, audioVars, captureVars, workerVars, guiVars, text_q,
                   polls_after>> ]_vars

\* the quit handler has set the flag, the worker has seen it and left its
\* loop, and main's shutdown path is about to set it a second time
C31_Witness ==
    /\ terminate
    /\ mainPc = "finally"
    /\ guiPc = "closed"
    /\ workerPc = "done"
    /\ ENABLED MainFinally

\* C32: windows follow the arrival of frames.  A window goes to the engine
\* only in the pass that takes a frame from raw_q, and one at most, so
\* there are never more windows than frames taken; and a queue wait that
\* ends with no frame leaves the buffer as it is, emits no window and only
\* sends the worker back to the test of its loop.
C32_FrameDriven ==
    /\ [](windows_out <= frames_in - Len(raw_q))
    /\ [][ /\ windows_out' # windows_out =>
                /\ windows_out' = windows_out + 1
                /\ raw_q # <<>>
                /\ raw_q' = Tail(raw_q)
                /\ Len(asr_calls') = Len(asr_calls) + 1
           /\ (workerPc = "get" /\ raw_q = <<>> /\ workerPc' # workerPc) =>
                /\ workerPc' = "check"
                /\ <<src_buffer, folded, windows_out, asr_calls, raw_q, text_q>>' =
                      <<src_buffer, folded, windows_out, asr_calls, raw_q, text_q>> ]_vars

\* two frames were taken and the second gave a window; the buffer holds the
\* span, no frame waits and the worker's queue wait is about to time out
C32_Witness ==
    /\ ~terminate
    /\ workerPc = "get"
    /\ raw_q = <<>>
    /\ frames_in = 2
    /\ windows_out = 1
    /\ HasSpan(src_buffer)
    /\ asr_calls = <<>>
    /\ ENABLED WorkerTimeout

\* C33: one tick drains text_q.  During a tick texts leave the queue only
\* at its head, one at a time, each applied to the sink as it is taken,
\* while new texts only join at the end; the tick ends only on an empty
\* queue, so all that waited when it began has been taken in order; and
\* the tick never waits: it can take the head of a non-empty queue and can
\* end on an empty one.
C33_TickDrains ==
    /\ [][ guiPc = "tick" =>
             /\ guiPc' = "idle" => text_q = <<>> /\ text_q' = <<>>
             /\ Len(text_q') < Len(text_q) =>
                   /\ text_q' = Tail(text_q)
                   /\ sunk' = Append(sunk, Head(text_q))
                   /\ lines' = SinkAppend(lines, Head(text_q))
                   /\ guiPc' = "tick"
             /\ Len(text_q') >= Len(text_q) =>
                   /\ SubSeq(text_q', 1, Len(text_q)) = text_q
                   /\ lines' = lines ]_vars
    /\ []((guiPc = "tick" /\ mainPc = "mainloop") =>
            /\ text_q # <<>> => ENABLED TickGet
            /\ text_q = <<>> => ENABLED TickEnd)

\* the first tick has taken the three texts that waited, in their order,
\* and the queue is empty: the tick is about to end
C33_Witness ==
    /\ guiPc = "tick"
    /\ text_var = WaitingText
    /\ fed = 3
    /\ text_q = <<>>
    /\ sunk = << <<"t", "1">>, <<"t", "2">>, <<"t", "3">> >>
    /\ lines = sunk
    /\ ENABLED TickEnd

\* C34: in audio_processing_thread the buffer holds fewer than
\* buffer_samples samples whenever a pass of the loop has ended; a pass
\* that brings it to that length cuts it to its last buffer_samples
\* samples and leaves it empty, and any other pass only adds the chunk.
C34_BufferBelowFull ==
    /\ [](app.pc # "none" => BufLen(app.audio_buffer) < buffer_samples)
    /\ [][ (app.pc = "get" /\ app'.pc = "check" /\ app'.audio_buffer # app.audio_buffer) =>
             LET item == Head(app.audio_queue)
                 len == BufLen(app.audio_buffer) + item.n
             IN IF len >= buffer_samples
                THEN /\ app'.audio_buffer = <<>>
                     /\ BufLen(app'.trimmed) = buffer_samples
                     /\ NewestOf(app'.trimmed) = app'.accepted
                ELSE /\ BufLen(app'.audio_buffer) = len
                     /\ app'.trimmed = app.trimmed ]_vars

\* the buffer was filled twice: the second time it was cut to its last
\* 24000 samples and emptied, and a further chunk has been added since
C34_Witness ==
    /\ app.pc = "check"
    /\ app.accepted > 2 * buffer_samples
    /\ BufLen(app.trimmed) = buffer_samples
    /\ app.trimmed[1][1] > buffer_samples
    /\ BufLen(app.audio_buffer) = chunk_size
    /\ app.audio_buffer[1][1] = NewestOf(app.trimmed) + 1

====
